---- MODULE Spec2Model ----
(***************************************************************************)
(* The multi-dimensional rating endpoints of the-shelf and the aggregate   *)
(* book fingerprint they maintain                                          *)
(* (backend/app/routers/multi_dimensional_ratings.py).                     *)
(*                                                                         *)
(* Every request handler is a coroutine; its position between two awaited  *)
(* database statements is pc[p].  One action is one awaited statement      *)
(* together with the local computation that follows it.  The database is   *)
(* PostgreSQL at READ COMMITTED: every statement sees what is committed    *)
(* when it runs.                                                           *)
(*                                                                         *)
(* Further down: the recommendation service                                *)
(* (backend/app/services/recommendations.py), cosine_similarity            *)
(* (backend/app/services/embeddings.py) and the fingerprint trigger of     *)
(* backend/scripts/init_db.py, each with a specification of its own.       *)
(***************************************************************************)
EXTENDS Integers, Sequences, FiniteSets, TLC

(* ---------------- bounds of the model ---------------- *)
MaxUsers    == 2   \* users 1..MaxUsers
MaxBooks    == 1   \* existing books 1..MaxBooks; id 0 is a book that does not exist
MaxRequests == 2   \* requests in flight at the same time
MaxStarted  == 3   \* requests served in one behaviour, retries included
MaxReqDims  == 1   \* dimensions a request body may mention, concurrent requests
MaxSeqDims  == 2   \* dimensions a request body may mention, one request at a time
MaxRecBooks == 4   \* books 1..MaxRecBooks of the snapshots the recommendation service reads
MaxLimit    == 3   \* the limit argument of the recommendation service is 1..MaxLimit
MaxExclude  == 1   \* size of the exclude_book_ids argument of a similarity call
MaxVecLen   == 2   \* length of the vectors cosine_similarity is called with

(* ---------------- program constants ---------------- *)
MinRating == 1
MaxRating == 5

DimSeq ==
    << "pace", "emotional_impact", "complexity", "character_development",
       "plot_quality", "prose_style", "originality" >>

Dims == { DimSeq[i] : i \in 1..Len(DimSeq) }

Null  == 0      \* SQL NULL / Python None in an integer column (valid values are 1..5)
Unset == -1     \* a field the request body does not mention (pydantic: not in model_fields_set)

Users   == 1..MaxUsers
Books   == 1..MaxBooks
BookIds == 0..MaxBooks
Slots   == 1..MaxRequests

(* ---------------- exact rationals for AVG and star_equivalent ---------------- *)
RECURSIVE Gcd(_, _)
Gcd(a, b) == IF b = 0 THEN a ELSE Gcd(b, a % b)

\* the rational n/d (d > 0) in lowest terms
Frac(n, d) == LET g == Gcd(n, d) IN << n \div g, d \div g >>

NullAvg == << 0, 0 >>    \* NULL in a float column (no rational has denominator 0)

FracAdd(x, y) == Frac(x[1] * y[2] + y[1] * x[2], x[2] * y[2])

RECURSIVE SumOver(_, _)
\* sum of f[x] over the finite set S of keys
SumOver(f, S) ==
    IF S = {} THEN 0
    ELSE LET x == CHOOSE y \in S : TRUE IN f[x] + SumOver(f, S \ {x})

RECURSIVE FracSum(_, _)
FracSum(f, S) ==
    IF S = {} THEN << 0, 1 >>
    ELSE LET x == CHOOSE y \in S : TRUE IN FracAdd(f[x], FracSum(f, S \ {x}))

(* ---------------- rows ---------------- *)
NoRow == [id |-> 0]     \* scalar_one_or_none() returning None

\* the rows of multi_dimensional_ratings of one book
RatingsOf(rows, b) == { r \in rows : r.book_id = b }

\* a mean that counts a NULL as 0 over all the rows
SqlAvgNullAsZero(rows, d) ==
    IF rows = {} THEN NullAvg
    ELSE Frac(SumOver([r \in rows |-> r.dims[d]], rows), Cardinality(rows))

\* func.avg(column): the mean over the rows where the column is not NULL, NULL when there is none
SqlAvg(rows, d) ==
    LET nn == { r \in rows : r.dims[d] # Null }
    IN  IF nn = {} THEN NullAvg
        ELSE Frac(SumOver([r \in nn |-> r.dims[d]], nn), Cardinality(nn))

\* a count of the rows that rate at least one dimension
SqlCountRated(rows) == Cardinality({ r \in rows : \E d \in Dims : r.dims[d] # Null })

\* func.count(): the number of rows, whatever their columns hold
SqlCount(rows) == Cardinality(rows)

\* a star equivalent that divides the sum of the averages by the 7 dimensions
StarEquivalentOverAll(avg) ==
    LET nn == { d \in Dims : avg[d] # NullAvg }
        s  == FracSum(avg, nn)
    IN  IF nn = {} THEN NullAvg ELSE Frac(s[1], s[2] * Cardinality(Dims))

\* non_null = [d for d in dimensions if d is not None];
\* star_equivalent = sum(non_null) / len(non_null) if non_null else None
StarEquivalent(avg) ==
    LET nn == { d \in Dims : avg[d] # NullAvg }
        s  == FracSum(avg, nn)
    IN  IF nn = {} THEN NullAvg ELSE Frac(s[1], s[2] * Cardinality(nn))

\* the aggregate query of update_book_fingerprint and the star equivalent computed from it
AggStats(rows, b) ==
    LET rs  == RatingsOf(rows, b)
        avg == [d \in Dims |-> SqlAvg(rs, d)]
    IN  [avg |-> avg, star_equivalent |-> StarEquivalent(avg), total_ratings |-> SqlCount(rs)]

NoStats == [avg |-> [d \in Dims |-> NullAvg], star_equivalent |-> NullAvg, total_ratings |-> 0]

\* an update branch that patches the row: it skips the statistics that are NULL
FpAssignSkipNull(stored, loaded, stats) ==
    [book_id         |-> stored.book_id,
     avg             |-> [d \in Dims |->
                            IF stats.avg[d] # NullAvg THEN stats.avg[d] ELSE stored.avg[d]],
     star_equivalent |-> IF stats.star_equivalent # NullAvg
                         THEN stats.star_equivalent ELSE stored.star_equivalent,
     total_ratings   |-> stats.total_ratings]

\* an update branch that adds the new count to the stored one
FpAssignAccumulate(stored, loaded, stats) ==
    [book_id         |-> stored.book_id,
     avg             |-> stats.avg,
     star_equivalent |-> stats.star_equivalent,
     total_ratings   |-> stored.total_ratings + stats.total_ratings]

\* the fingerprint object after the assignments of the update branch; the flush
\* writes the attributes whose value differs from the loaded one and leaves the
\* other columns of the stored row alone
FpAssign(stored, loaded, stats) ==
    [book_id         |-> stored.book_id,
     avg             |-> [d \in Dims |->
                            IF stats.avg[d] # loaded.avg[d] THEN stats.avg[d] ELSE stored.avg[d]],
     star_equivalent |-> IF stats.star_equivalent # loaded.star_equivalent
                         THEN stats.star_equivalent ELSE stored.star_equivalent,
     total_ratings   |-> IF stats.total_ratings # loaded.total_ratings
                         THEN stats.total_ratings ELSE stored.total_ratings]

\* BookFingerprint(book_id=..., avg_pace=stats.avg_pace, ..., total_ratings=stats.total_ratings)
FpNew(b, stats) ==
    [book_id |-> b, avg |-> stats.avg, star_equivalent |-> stats.star_equivalent,
     total_ratings |-> stats.total_ratings]

NoFp == [book_id |-> 0]

(* ---------------- request bodies ---------------- *)
\* MultiDimensionalRatingCreate without book_id: every dimension is None, a
\* value in 1..5 (ge=1, le=5), or not mentioned at all; the bodies generated
\* mention the first n dimensions at most, with the extreme values
ReqBodies(n) ==
    LET ReqDims == { DimSeq[i] : i \in 1..n }
    IN  { [d \in Dims |-> IF d \in ReqDims THEN f[d] ELSE Unset] :
            f \in [ReqDims -> {Unset, Null, MinRating, MaxRating}] }

\* rating_data.model_dump(): unset fields dump as their default None
ModelDump(data) == [d \in Dims |-> IF data[d] = Unset THEN Null ELSE data[d]]

\* rating_data.model_dump(exclude_unset=True, exclude={"book_id"}): the keys of update_data
UpdateKeys(data) == { d \in Dims : data[d] # Unset }

\* an update that assigns the whole dumped body, the fields the request omits included
RatingAssignWholeBody(stored, loaded, data) ==
    [stored EXCEPT !.dims =
        [d \in Dims |->
            IF ModelDump(data)[d] # loaded.dims[d] THEN ModelDump(data)[d] ELSE stored.dims[d]]]

\* the row after "for key, value in update_data.items(): setattr(existing_rating, key, value)"
\* is flushed: columns whose assigned value differs from the loaded one are written
RatingAssign(stored, loaded, data) ==
    [stored EXCEPT !.dims =
        [d \in Dims |->
            IF d \in UpdateKeys(data) /\ data[d] # loaded.dims[d]
            THEN data[d] ELSE stored.dims[d]]]

NoReq == [kind |-> "none", user |-> 0, book |-> 0, data |-> [d \in Dims |-> Unset],
          retry |-> FALSE]

NoResp == [status |-> 0]

(* ---------------- vectors and similarity (services) ---------------- *)
FracMul(x, y) == Frac(x[1] * y[1], x[2] * y[2])

FracLess(x, y) == x[1] * y[2] < y[1] * x[2]

RECURSIVE Dot(_, _, _)
\* sum(a * b for a, b in zip(vec1, vec2)) over the first n components
Dot(vec1, vec2, n) ==
    IF n = 0 THEN << 0, 1 >>
    ELSE FracAdd(FracMul(vec1[n], vec2[n]), Dot(vec1, vec2, n - 1))

Neutral == << 3, 1 >>    \* the 3.0 that fills a missing dimension

\* BookFingerprint.fingerprint_vector: [self.avg_pace or 3.0, ...]; None and 0.0 are falsy
FingerprintVector(f) ==
    [i \in 1..Len(DimSeq) |->
        IF f.avg[DimSeq[i]] = NullAvg \/ f.avg[DimSeq[i]][1] = 0
        THEN Neutral ELSE f.avg[DimSeq[i]]]

ValueError == << "ValueError" >>

\* a cosine that divides without looking at the magnitudes
CosineSimilarityUnguarded(vec1, vec2) ==
    IF Len(vec1) # Len(vec2) THEN ValueError
    ELSE LET dot_product == Dot(vec1, vec2, Len(vec1))
             sq1 == Dot(vec1, vec1, Len(vec1))
             sq2 == Dot(vec2, vec2, Len(vec2))
             sgn == IF dot_product[1] < 0 THEN -1 ELSE 1
         IN  IF sq1[1] = 0 \/ sq2[1] = 0 THEN << "ZeroDivisionError" >>
             ELSE Frac(sgn * dot_product[1] * dot_product[1] * sq1[2] * sq2[2],
                       dot_product[2] * dot_product[2] * sq1[1] * sq2[1])

\* cosine_similarity(vec1, vec2).  The float dot / (mag1 * mag2) is kept as the
\* exact rational c * |c| (c the cosine), which orders values as c does and is
\* 0, 1 or -1 exactly when c is; two calls on equal vectors give equal values
CosineSimilarity(vec1, vec2) ==
    IF Len(vec1) # Len(vec2) THEN ValueError
    ELSE LET dot_product == Dot(vec1, vec2, Len(vec1))
             sq1 == Dot(vec1, vec1, Len(vec1))
             sq2 == Dot(vec2, vec2, Len(vec2))
             sgn == IF dot_product[1] < 0 THEN -1 ELSE 1
         IN  IF sq1[1] = 0 \/ sq2[1] = 0 THEN << 0, 1 >>
             ELSE Frac(sgn * dot_product[1] * dot_product[1] * sq1[2] * sq2[2],
                       dot_product[2] * dot_product[2] * sq1[1] * sq2[1])

\* list.sort(key=..., reverse=True), key[i] being the key of s[i]: descending
\* by key, and stable, so that elements with equal keys keep the order they
\* had in the list
StableSortDesc(s, key) ==
    LET rank(i) == 1 + Cardinality({ j \in 1..Len(s) :
                        \/ FracLess(key[i], key[j])
                        \/ (~FracLess(key[j], key[i]) /\ j < i) })
    IN  [k \in 1..Len(s) |-> s[CHOOSE i \in 1..Len(s) : rank(i) = k]]

\* s[:n] for n >= 0
Take(s, n) == SubSeq(s, 1, IF n < Len(s) THEN n ELSE Len(s))

\* the orders in which a SELECT without ORDER BY may return the rows of the set S
ScanOrders(S) ==
    { s \in [1..Cardinality(S) -> S] : \A i, j \in 1..Cardinality(S) : s[i] = s[j] => i = j }

MinTargetRatings    == 3    \* "target_fp.total_ratings < 3"
MinCandidateRatings == 3    \* "BookFingerprint.total_ratings >= 3"

\* a candidate query without the minimum number of ratings
FingerprintCandidatesAnyCount(fps, book_id, exclude_book_ids) ==
    { f \in fps : /\ f.book_id # book_id
                  /\ (exclude_book_ids # {} => f.book_id \notin exclude_book_ids) }

\* the rows get_similar_books_by_fingerprint selects as candidates
FingerprintCandidates(fps, book_id, exclude_book_ids) ==
    { f \in fps : /\ f.book_id # book_id
                  /\ f.total_ratings >= MinCandidateRatings
                  /\ (exclude_book_ids # {} => f.book_id \notin exclude_book_ids) }

\* books_with_similarity of get_similar_books_by_fingerprint, the candidate rows
\* arriving in the order scan: the (book, similarity) pairs after the sort
BooksWithSimilarity(target_fp, scan) ==
    LET target_vector == FingerprintVector(target_fp)
        pairs == [i \in 1..Len(scan) |->
                    [book |-> scan[i].book_id,
                     similarity |-> CosineSimilarity(target_vector, FingerprintVector(scan[i]))]]
    IN  StableSortDesc(pairs, [i \in 1..Len(pairs) |-> pairs[i].similarity])

\* a similarity search that accepts a target fingerprint of any number of ratings
SimilarBooksAnyTarget(fps, book_id, limit, scan) ==
    LET found == { f \in fps : f.book_id = book_id }
        sorted == BooksWithSimilarity(CHOOSE f \in found : TRUE, scan)
    IN  IF found = {} THEN << >>
        ELSE [i \in 1..Len(Take(sorted, limit)) |-> sorted[i].book]

\* get_similar_books_by_fingerprint: the ids of the books returned, scan being
\* the order in which the candidate query returns its rows
SimilarBooksByFingerprint(fps, book_id, limit, scan) ==
    LET found == { f \in fps : f.book_id = book_id }
        target_fp == CHOOSE f \in found : TRUE
    IN  IF found = {} THEN << >>
        ELSE IF target_fp.total_ratings < MinTargetRatings THEN << >>
        ELSE LET sorted == BooksWithSimilarity(target_fp, scan)
             IN  [i \in 1..Len(Take(sorted, limit)) |-> sorted[i].book]

(* ---------------- get_personalized_recommendations, its local computation ---------------- *)
HighlyRatedMin     == 4     \* "r.star_equivalent >= 4.0"
MaxFavorites       == 3     \* "highly_rated_book_ids[:3]"
SimilarPerFavorite == 5     \* "limit=5"
PopularMinRatings  == 10    \* "BookFingerprint.total_ratings >= 10"
PopularMinStar     == 4     \* "BookFingerprint.star_equivalent >= 4.0"

SimilarScore == << 9, 10 >>     \* "score": 0.9
PopularScore == << 7, 10 >>     \* "score": 0.7

\* MultiDimensionalRating.star_equivalent: the mean of the dimensions that are not None
RatingStarEquivalent(r) ==
    LET non_null == { d \in Dims : r.dims[d] # Null }
    IN  IF non_null = {} THEN NullAvg
        ELSE Frac(SumOver(r.dims, non_null), Cardinality(non_null))

\* "if r.star_equivalent and r.star_equivalent >= 4.0"
HighlyRated(r) ==
    LET star == RatingStarEquivalent(r)
    IN  star # NullAvg /\ star[1] # 0 /\ ~FracLess(star, << HighlyRatedMin, 1 >>)

\* [r.book_id for r in user_ratings if ...], user_ratings being a sequence of rows
HighlyRatedBookIds(user_ratings) ==
    LET kept == SelectSeq(user_ratings, HighlyRated)
    IN  [i \in 1..Len(kept) |-> kept[i].book_id]

\* an exclusion set that is empty when exclude_read is false
ExcludeIdsOnlyIfFlag(library, exclude_read) ==
    IF exclude_read THEN { ub.book_id : ub \in library } ELSE {}

\* "Books to exclude"
ExcludeIds(library, exclude_read) ==
    IF exclude_read
    THEN { ub.book_id : ub \in library }
    ELSE { ub.book_id : ub \in { x \in library : x.status \in { "finished", "dnf" } } }

SimilarEntry(book) ==
    [book |-> book, reason |-> "Similar feel to books you loved", score |-> SimilarScore]

PopularEntry(book) ==
    [book |-> book, reason |-> "Highly rated", score |-> PopularScore]

\* a loop body that appends without recording the book as seen
AddIfNewForgetful(acc, book) ==
    IF book \notin acc.exclude_ids
    THEN [recommendations |-> Append(acc.recommendations, SimilarEntry(book)),
          exclude_ids     |-> acc.exclude_ids]
    ELSE acc

\* "if book.id not in exclude_ids: recommendations.append(...); exclude_ids.add(book.id)"
AddIfNew(acc, book) ==
    IF book \notin acc.exclude_ids
    THEN [recommendations |-> Append(acc.recommendations, SimilarEntry(book)),
          exclude_ids     |-> acc.exclude_ids \cup { book }]
    ELSE acc

RECURSIVE AddSimilar(_, _)
\* "for book in similar: ..."
AddSimilar(acc, similar) ==
    IF similar = << >> THEN acc
    ELSE AddSimilar(AddIfNew(acc, Head(similar)), Tail(similar))

\* a popularity query that asks nothing of the fingerprint
PopularRowsAnyFingerprint(fps, excluded) == { f \in fps : f.book_id \notin excluded }

\* the rows the popularity query selects (a NULL star_equivalent compares as unknown)
PopularRows(fps, excluded) ==
    { f \in fps : /\ f.total_ratings >= PopularMinRatings
                  /\ f.star_equivalent # NullAvg
                  /\ ~FracLess(f.star_equivalent, << PopularMinStar, 1 >>)
                  /\ f.book_id \notin excluded }

\* the orders ".order_by(BookFingerprint.total_ratings.desc())" allows
PopularOrders(rows) ==
    { s \in ScanOrders(rows) :
        \A i, j \in 1..Len(s) : i < j => s[i].total_ratings >= s[j].total_ratings }

RECURSIVE AddPopular(_, _)
\* "for book, fp in popular_books: recommendations.append(...)"
AddPopular(recs, popular_books) ==
    IF popular_books = << >> THEN recs
    ELSE AddPopular(Append(recs, PopularEntry(Head(popular_books).book_id)), Tail(popular_books))

\* a sort by ascending score
SortByScoreAscending(recs) ==
    StableSortDesc(recs, [i \in 1..Len(recs) |-> << 0 - recs[i].score[1], recs[i].score[2] >>])

\* "recommendations.sort(key=lambda x: x["score"], reverse=True)"
SortByScore(recs) == StableSortDesc(recs, [i \in 1..Len(recs) |-> recs[i].score])

(* ---------------- get_books_by_mood, its local computation ---------------- *)
MoodMinRatings == 5     \* "BookFingerprint.total_ratings >= 5"

\* one entry of a mood's dict: key "<field>_min" or "<field>_max" and its value
Bound(field, side, value) == [field |-> field, side |-> side, value |-> value]

\* mood_filters
MoodFilters ==
    [comfort       |-> { Bound("emotional_impact", "min", << 4, 1 >>),
                         Bound("complexity", "max", << 3, 1 >>) },
     challenge     |-> { Bound("complexity", "min", << 4, 1 >>),
                         Bound("originality", "min", << 4, 1 >>) },
     escape        |-> { Bound("pace", "min", << 4, 1 >>),
                         Bound("plot_quality", "min", << 4, 1 >>) },
     contemplative |-> { Bound("pace", "max", << 5, 2 >>),
                         Bound("prose_style", "min", << 4, 1 >>) }]

\* the labels the service is called with: the four moods, a mood in another
\* case, a label that names no mood, and the empty string
MoodLabels == { "comfort", "challenge", "escape", "contemplative", "Comfort", "cozy", "" }

\* mood.lower(), on the labels above
Lower(mood) == IF mood = "Comfort" THEN "comfort" ELSE mood

\* "filters = mood_filters.get(mood.lower())": None for a key the dict lacks
FiltersOf(mood) ==
    IF Lower(mood) \in DOMAIN MoodFilters THEN MoodFilters[Lower(mood)] ELSE {}

\* "column >= value" / "column <= value" in a WHERE clause: a NULL column
\* compares as unknown and the row is not selected
Within(f, bound) ==
    /\ f.avg[bound.field] # NullAvg
    /\ IF bound.side = "min"
       THEN ~FracLess(f.avg[bound.field], bound.value)
       ELSE ~FracLess(bound.value, f.avg[bound.field])

\* a query whose bounds are alternatives
MoodRowsEitherBound(fps, filters) ==
    { f \in fps : /\ f.total_ratings >= MoodMinRatings
                  /\ \E bound \in filters : Within(f, bound) }

\* the rows the query of get_books_by_mood selects: every where() adds a conjunct
MoodRows(fps, filters) ==
    { f \in fps : /\ f.total_ratings >= MoodMinRatings
                  /\ \A bound \in filters : Within(f, bound) }

\* get_books_by_mood: the ids of the books returned, scan being the order in
\* which the database goes through the selected rows ("query.limit(limit)",
\* no ORDER BY)
BooksByMood(mood, limit, scan) ==
    IF FiltersOf(mood) = {} THEN << >>
    ELSE [i \in 1..Len(Take(scan, limit)) |-> scan[i].book_id]

(* ---------------- state ---------------- *)
VARIABLES
    ratings,       \* table multi_dimensional_ratings: set of rows [id, user_id, book_id, dims]
    fingerprints,  \* table book_fingerprints: set of rows [book_id, avg, star_equivalent, total_ratings]
    nextId,        \* next value of the id sequence of multi_dimensional_ratings
    pc,            \* pc[p]: the awaited statement request p runs next
    req,           \* req[p]: the request p serves (kind, current user, book id, body)
    existing,      \* existing[p]: the rating row the handler loaded (existing_rating / rating)
    stats,         \* stats[p]: result row of the aggregate query, with star_equivalent
    fingerprint,   \* fingerprint[p]: the fingerprint row the recompute loaded
    resp,          \* resp[p]: the response of a finished request
    started,       \* number of requests the server has accepted so far
    user_books,    \* table user_books: set of rows [user_id, book_id, status]
    highly_rated_book_ids,  \* highly_rated_book_ids[p] of get_personalized_recommendations
    exclude_ids,            \* exclude_ids[p] of get_personalized_recommendations
    recommendations         \* recommendations[p] of get_personalized_recommendations

vars == << ratings, fingerprints, nextId, pc, req, existing, stats, fingerprint, resp,
           started, user_books, highly_rated_book_ids, exclude_ids, recommendations >>

db     == << ratings, fingerprints, nextId >>
locals == << existing, stats, fingerprint >>

\* what only the recommendation service reads or writes
recommender == << user_books, highly_rated_book_ids, exclude_ids, recommendations >>

TypeOK ==
    /\ \A r \in ratings :
          r.id \in 1..MaxStarted /\ r.user_id \in Users /\ r.book_id \in Books
          /\ \A d \in Dims : r.dims[d] \in {Null} \cup (MinRating..MaxRating)
    /\ \A f \in fingerprints : f.book_id \in Books /\ f.total_ratings \in Nat
    /\ nextId \in 1..(MaxStarted + 1)
    /\ started \in 0..MaxStarted
    /\ pc \in [Slots -> { "idle", "select_rating", "commit_rating", "refresh",
                          "delete_select", "delete_commit",
                          "aggregate", "select_fingerprint", "commit_fingerprint",
                          "read_fingerprint", "done" }]

Init ==
    /\ ratings = {}
    /\ fingerprints = {}
    /\ nextId = 1
    /\ pc = [p \in Slots |-> "idle"]
    /\ req = [p \in Slots |-> NoReq]
    /\ existing = [p \in Slots |-> NoRow]
    /\ stats = [p \in Slots |-> NoStats]
    /\ fingerprint = [p \in Slots |-> NoFp]
    /\ resp = [p \in Slots |-> NoResp]
    /\ started = 0
    /\ user_books = {}
    /\ highly_rated_book_ids = [p \in Slots |-> << >>]
    /\ exclude_ids = [p \in Slots |-> {}]
    /\ recommendations = [p \in Slots |-> << >>]

\* the handler raises (HTTPException, or a database error that becomes a 500): the
\* session is rolled back and closed, nothing it had pending reaches the tables
Raise(p, status, error) ==
    /\ pc' = [pc EXCEPT ![p] = "done"]
    /\ resp' = [resp EXCEPT ![p] = [status |-> status, error |-> error, at |-> pc[p]]]
    /\ existing' = [existing EXCEPT ![p] = NoRow]
    /\ stats' = [stats EXCEPT ![p] = NoStats]
    /\ fingerprint' = [fingerprint EXCEPT ![p] = NoFp]
    /\ UNCHANGED << db, req, started, recommender >>

\* a handler of the ratings router moves on to its next statement
Goto(p, label) ==
    /\ pc' = [pc EXCEPT ![p] = label]
    /\ UNCHANGED recommender

\* the server accepts a request: it runs as coroutine p (the idle slots are
\* interchangeable, the lowest one is taken)
Accept(p) ==
    /\ pc[p] = "idle"
    /\ \A q \in Slots : q < p => pc[q] # "idle"
    /\ started < MaxStarted
    /\ started' = started + 1

(* ---------------- POST /ratings/ : create_or_update_rating ---------------- *)
\* the request arrives; "Verify book exists"
CreateOrUpdateRating(p, u, b, data) ==
    /\ Accept(p)
    /\ req' = [req EXCEPT ![p] = [kind |-> "post", user |-> u, book |-> b, data |-> data,
                                  retry |-> FALSE]]
    /\ IF b \notin Books
       THEN /\ Goto(p, "done")
            /\ resp' = [resp EXCEPT ![p] = [status |-> 404, error |-> "HTTPException", at |-> "select_book"]]
       ELSE /\ Goto(p, "select_rating")
            /\ UNCHANGED resp
    /\ UNCHANGED << db, locals >>

\* "Check if rating already exists": scalar_one_or_none() raises when several rows match
SelectExistingRating(p) ==
    /\ pc[p] = "select_rating"
    /\ LET found == { r \in ratings : r.user_id = req[p].user /\ r.book_id = req[p].book }
       IN  IF Cardinality(found) > 1
           THEN Raise(p, 500, "MultipleResultsFound")
           ELSE /\ existing' = [existing EXCEPT ![p] =
                       IF found = {} THEN NoRow ELSE CHOOSE r \in found : TRUE]
                /\ Goto(p, "commit_rating")
                /\ UNCHANGED << db, req, stats, fingerprint, resp, started >>

\* a table without the unique constraint
NoUniqueUserBook(rows, u, b) == TRUE

\* uq_user_book_rating
UniqueUserBook(rows, u, b) == ~ \E r \in rows : r.user_id = u /\ r.book_id = b

\* the update branch or the create branch, then "await db.commit()"
CommitRating(p) ==
    /\ pc[p] = "commit_rating"
    /\ IF existing[p] # NoRow
       THEN \* UPDATE ... WHERE id = :id (updated_at is always assigned, so the
            \* statement is always sent); no row matched raises StaleDataError
            IF \E r \in ratings : r.id = existing[p].id
            THEN LET stored == CHOOSE r \in ratings : r.id = existing[p].id
                     new    == RatingAssign(stored, existing[p], req[p].data)
                 IN  /\ ratings' = (ratings \ {stored}) \cup {new}
                     /\ Goto(p, "refresh")
                     /\ UNCHANGED << fingerprints, nextId, req, locals, resp, started >>
            ELSE Raise(p, 500, "StaleDataError")
       ELSE \* INSERT; a row of the same user and book raises IntegrityError
            IF UniqueUserBook(ratings, req[p].user, req[p].book)
            THEN /\ LET new == [id |-> nextId, user_id |-> req[p].user,
                                book_id |-> req[p].book, dims |-> ModelDump(req[p].data)]
                    IN  /\ ratings' = ratings \cup {new}
                        /\ existing' = [existing EXCEPT ![p] = new]
                 /\ nextId' = nextId + 1
                 /\ Goto(p, "refresh")
                 /\ UNCHANGED << fingerprints, req, stats, fingerprint, resp, started >>
            ELSE Raise(p, 500, "IntegrityError")

\* "await db.refresh(rating)": SELECT by primary key, raises when the row is gone
RefreshRating(p) ==
    /\ pc[p] = "refresh"
    /\ IF \E r \in ratings : r.id = existing[p].id
       THEN /\ existing' = [existing EXCEPT ![p] = CHOOSE r \in ratings : r.id = existing[p].id]
            /\ Goto(p, "aggregate")
            /\ UNCHANGED << db, req, stats, fingerprint, resp, started >>
       ELSE Raise(p, 500, "InvalidRequestError")

(* ---------------- DELETE /ratings/{book_id} : delete_rating ---------------- *)
\* the request arrives (the handler does not look the book up)
DeleteRating(p, u, b) ==
    /\ Accept(p)
    /\ req' = [req EXCEPT ![p] = [kind |-> "delete", user |-> u, book |-> b,
                                  data |-> NoReq.data, retry |-> FALSE]]
    /\ Goto(p, "delete_select")
    /\ UNCHANGED << db, locals, resp >>

\* select the current user's rating; "if not rating: raise HTTPException(404)"
SelectRatingToDelete(p) ==
    /\ pc[p] = "delete_select"
    /\ LET found == { r \in ratings : r.user_id = req[p].user /\ r.book_id = req[p].book }
       IN  IF Cardinality(found) > 1 THEN Raise(p, 500, "MultipleResultsFound")
           ELSE IF found = {} THEN Raise(p, 404, "HTTPException")
           ELSE /\ existing' = [existing EXCEPT ![p] = CHOOSE r \in found : TRUE]
                /\ Goto(p, "delete_commit")
                /\ UNCHANGED << db, req, stats, fingerprint, resp, started >>

\* a delete that returns right after its commit
CommitDeleteNoRecompute(p) ==
    /\ pc[p] = "delete_commit"
    /\ ratings' = { r \in ratings : r.id # existing[p].id }
    /\ existing' = [existing EXCEPT ![p] = NoRow]
    /\ Goto(p, "done")
    /\ resp' = [resp EXCEPT ![p] = [status |-> 204]]
    /\ UNCHANGED << fingerprints, nextId, req, stats, fingerprint, started >>

\* "await db.delete(rating); await db.commit()": DELETE ... WHERE id = :id; a row
\* that is already gone matches nothing, which the ORM only warns about
CommitDelete(p) ==
    /\ pc[p] = "delete_commit"
    /\ ratings' = { r \in ratings : r.id # existing[p].id }
    /\ existing' = [existing EXCEPT ![p] = NoRow]
    /\ Goto(p, "aggregate")
    /\ UNCHANGED << fingerprints, nextId, req, stats, fingerprint, resp, started >>

(* ---------------- update_book_fingerprint ---------------- *)
\* "Calculate aggregate statistics" and the star equivalent
AggregateQuery(p) ==
    /\ pc[p] = "aggregate"
    /\ stats' = [stats EXCEPT ![p] = AggStats(ratings, req[p].book)]
    /\ Goto(p, "select_fingerprint")
    /\ UNCHANGED << db, req, existing, fingerprint, resp, started >>

\* "Check if fingerprint exists"
SelectFingerprint(p) ==
    /\ pc[p] = "select_fingerprint"
    /\ LET found == { f \in fingerprints : f.book_id = req[p].book }
       IN  IF Cardinality(found) > 1
           THEN Raise(p, 500, "MultipleResultsFound")
           ELSE /\ fingerprint' = [fingerprint EXCEPT ![p] =
                       IF found = {} THEN NoFp ELSE CHOOSE f \in found : TRUE]
                /\ Goto(p, "commit_fingerprint")
                /\ UNCHANGED << db, req, existing, stats, resp, started >>

\* the primary key of book_fingerprints
UniqueBook(rows, b) == ~ \E f \in rows : f.book_id = b

\* what the handler returns after the recompute: the rating (POST) or None (DELETE)
Returned(p) ==
    IF req[p].kind = "post"
    THEN [status |-> 201, rating |-> existing[p]]
    ELSE [status |-> 204]

\* the update branch or the create branch, "await db.commit()", and the handler's return
CommitFingerprint(p) ==
    /\ pc[p] = "commit_fingerprint"
    /\ IF fingerprint[p] # NoFp
       THEN \* UPDATE book_fingerprints SET <changed columns> WHERE book_id = :book_id
            /\ fingerprints' =
                 { IF f.book_id = req[p].book THEN FpAssign(f, fingerprint[p], stats[p]) ELSE f :
                     f \in fingerprints }
            /\ resp' = [resp EXCEPT ![p] = Returned(p)]
            /\ Goto(p, "done")
            /\ existing' = [existing EXCEPT ![p] = NoRow]
            /\ stats' = [stats EXCEPT ![p] = NoStats]
            /\ fingerprint' = [fingerprint EXCEPT ![p] = NoFp]
            /\ UNCHANGED << ratings, nextId, req, started >>
       ELSE \* INSERT; a row of the same book raises IntegrityError
            IF UniqueBook(fingerprints, req[p].book)
            THEN /\ fingerprints' = fingerprints \cup { FpNew(req[p].book, stats[p]) }
                 /\ resp' = [resp EXCEPT ![p] = Returned(p)]
                 /\ Goto(p, "done")
                 /\ existing' = [existing EXCEPT ![p] = NoRow]
                 /\ stats' = [stats EXCEPT ![p] = NoStats]
                 /\ fingerprint' = [fingerprint EXCEPT ![p] = NoFp]
                 /\ UNCHANGED << ratings, nextId, req, started >>
            ELSE Raise(p, 500, "IntegrityError")

(* ---------------- GET /ratings/{book_id}/fingerprint : get_book_fingerprint ---------------- *)
\* a loaded row of book_fingerprints: updated_at carries its server default
StoredFingerprint(f) ==
    [book_id |-> f.book_id, avg |-> f.avg, star_equivalent |-> f.star_equivalent,
     total_ratings |-> f.total_ratings, updated_at |-> "now"]

\* BookFingerprint(book_id=book_id, total_ratings=0): a transient object, every
\* attribute that was not passed is None, updated_at included
EmptyFingerprint(b) ==
    [book_id |-> b, avg |-> [d \in Dims |-> NullAvg], star_equivalent |-> NullAvg,
     total_ratings |-> 0, updated_at |-> "None"]

\* response_model=BookFingerprintResponse: book_id, total_ratings and updated_at
\* are required fields (updated_at: datetime), the averages are Optional
ValidFingerprintResponse(obj) == obj.updated_at # "None"

\* the request arrives; "Verify book exists"
GetBookFingerprint(p, b) ==
    /\ Accept(p)
    /\ req' = [req EXCEPT ![p] = [kind |-> "get_fingerprint", user |-> 0, book |-> b,
                                  data |-> NoReq.data, retry |-> FALSE]]
    /\ IF b \notin Books
       THEN /\ Goto(p, "done")
            /\ resp' = [resp EXCEPT ![p] = [status |-> 404, error |-> "HTTPException", at |-> "select_book"]]
       ELSE /\ Goto(p, "read_fingerprint")
            /\ UNCHANGED resp
    /\ UNCHANGED << db, locals >>

\* "Get fingerprint", "Create empty fingerprint", return; the returned object is
\* then validated against the response model of the route
ReadFingerprint(p) ==
    /\ pc[p] = "read_fingerprint"
    /\ LET found == { f \in fingerprints : f.book_id = req[p].book }
           obj   == IF found = {} THEN EmptyFingerprint(req[p].book)
                    ELSE StoredFingerprint(CHOOSE f \in found : TRUE)
       IN  IF Cardinality(found) > 1
           THEN Raise(p, 500, "MultipleResultsFound")
           ELSE IF ~ValidFingerprintResponse(obj)
           THEN Raise(p, 500, "ResponseValidationError")
           ELSE /\ resp' = [resp EXCEPT ![p] = [status |-> 200, body |-> obj]]
                /\ Goto(p, "done")
                /\ UNCHANGED << db, req, locals, started >>

(* ---------------- environment ---------------- *)
DbSteps ==
    { "select_rating", "commit_rating", "refresh", "delete_select", "delete_commit",
      "aggregate", "select_fingerprint", "commit_fingerprint", "read_fingerprint" }

\* the statements of update_book_fingerprint
RecomputeSteps == { "aggregate", "select_fingerprint", "commit_fingerprint" }

\* the storage is unavailable for the statement p awaits: the statement raises
\* and nothing of it is applied
StorageFails(p) ==
    /\ pc[p] \in DbSteps
    /\ Raise(p, 500, "OperationalError")

\* the response has been sent; the slot serves the next request
Respond(p) ==
    /\ pc[p] = "done"
    /\ Goto(p, "idle")
    /\ req' = [req EXCEPT ![p] = NoReq]
    /\ resp' = [resp EXCEPT ![p] = NoResp]
    /\ UNCHANGED << db, locals, started >>

\* the client repeats, unchanged, a rating request that was answered with the
\* error of a failed fingerprint recompute
RetryRequest(p) ==
    /\ pc[p] = "done"
    /\ req[p].kind \in { "post", "delete" }
    /\ resp[p].status = 500
    /\ resp[p].at \in RecomputeSteps
    /\ started < MaxStarted
    /\ started' = started + 1
    /\ req' = [req EXCEPT ![p].retry = TRUE]
    /\ resp' = [resp EXCEPT ![p] = NoResp]
    /\ Goto(p, IF req[p].kind = "post" THEN "select_rating" ELSE "delete_select")
    /\ UNCHANGED << db, locals >>

\* the request handlers, the storage being available
Handlers ==
    \/ \E p \in Slots, u \in Users, b \in BookIds, data \in ReqBodies(MaxReqDims) :
          CreateOrUpdateRating(p, u, b, data)
    \/ \E p \in Slots : SelectExistingRating(p)
    \/ \E p \in Slots : CommitRating(p)
    \/ \E p \in Slots : RefreshRating(p)
    \/ \E p \in Slots, u \in Users, b \in BookIds : DeleteRating(p, u, b)
    \/ \E p \in Slots : SelectRatingToDelete(p)
    \/ \E p \in Slots : CommitDelete(p)
    \/ \E p \in Slots : AggregateQuery(p)
    \/ \E p \in Slots : SelectFingerprint(p)
    \/ \E p \in Slots : CommitFingerprint(p)
    \/ \E p \in Slots, b \in BookIds : GetBookFingerprint(p, b)
    \/ \E p \in Slots : ReadFingerprint(p)
    \/ \E p \in Slots : Respond(p)

Next ==
    \/ Handlers
    \/ \E p \in Slots : StorageFails(p)
    \/ \E p \in Slots : RetryRequest(p)

\* concurrent requests, storage failures and retries
Spec == Init /\ [][Next]_vars

\* concurrent requests against a storage that never fails
SpecUp == Init /\ [][Handlers]_vars

\* the same handlers, storage failures and retries with one request served at a time
NextSeq ==
    \/ \E u \in Users, b \in BookIds, data \in ReqBodies(MaxSeqDims) :
          CreateOrUpdateRating(1, u, b, data)
    \/ SelectExistingRating(1)
    \/ CommitRating(1)
    \/ RefreshRating(1)
    \/ \E u \in Users, b \in BookIds : DeleteRating(1, u, b)
    \/ SelectRatingToDelete(1)
    \/ CommitDelete(1)
    \/ AggregateQuery(1)
    \/ SelectFingerprint(1)
    \/ CommitFingerprint(1)
    \/ \E b \in BookIds : GetBookFingerprint(1, b)
    \/ ReadFingerprint(1)
    \/ StorageFails(1)
    \/ Respond(1)
    \/ RetryRequest(1)

SpecSeq == Init /\ [][NextSeq]_vars

(* ======================================================================= *)
(* The recommendation service (backend/app/services/recommendations.py).   *)
(* Its functions only read the tables; they are called on a snapshot that  *)
(* the initial state draws.                                                *)
(* ======================================================================= *)
RecBooks   == 1..MaxRecBooks
RecBookIds == 0..MaxRecBooks      \* id 0 is a book that does not exist
Limits     == 1..MaxLimit
ExcludeArgs == { S \in SUBSET RecBooks : Cardinality(S) <= MaxExclude }

\* averages that rate pace and complexity only (NULL elsewhere)
Feel(pace, complexity) ==
    [d \in Dims |-> IF d = "pace" THEN pace
                    ELSE IF d = "complexity" THEN complexity ELSE NullAvg]

\* the fingerprint row the recompute stores for averages avg over n ratings
FpSample(avg, n) == [avg |-> avg, star_equivalent |-> StarEquivalent(avg), total_ratings |-> n]

\* sample fingerprints: below the reliability floor, at the floor, popular with
\* the same vector, and popular with a different feel
FpSamples ==
    { FpSample(Feel(<< 5, 1 >>, NullAvg), 2),
      FpSample(Feel(<< 5, 1 >>, NullAvg), 3),
      FpSample(Feel(<< 5, 1 >>, << 3, 1 >>), 10),
      FpSample(Feel(<< 9, 2 >>, << 4, 1 >>), 12) }

\* the tables book_fingerprints in which each book has no row or a sample row
FingerprintTables ==
    { { FpNew(b, t[b]) : b \in { x \in RecBooks : t[x] # NoStats } } :
        t \in [RecBooks -> FpSamples \cup { NoStats }] }

\* the class Book maps these attributes; description_embedding is not one of them
BookAttributes ==
    { "id", "title", "author", "isbn", "description", "cover_url", "publication_date",
      "created_at", "genres", "user_books", "reviews", "content_ratings",
      "multi_dimensional_ratings", "fingerprint", "related_to" }

\* the function returns value
ReturnValue(p, value) ==
    /\ pc' = [pc EXCEPT ![p] = "done"]
    /\ resp' = [resp EXCEPT ![p] = [status |-> "returned", value |-> value]]

\* the function raises
RaiseError(p, error) ==
    /\ pc' = [pc EXCEPT ![p] = "done"]
    /\ resp' = [resp EXCEPT ![p] = [status |-> "raised", error |-> error]]

\* get_similar_books_by_embedding: "select(Book.description_embedding)" is
\* evaluated before any statement runs, and raises AttributeError
GetSimilarBooksByEmbedding(p, book_id, limit, exclude_book_ids) ==
    /\ pc[p] = "idle"
    /\ req' = [req EXCEPT ![p] = [kind |-> "similar_by_embedding", book |-> book_id,
                                  limit |-> limit, exclude |-> exclude_book_ids]]
    /\ "description_embedding" \notin BookAttributes
    /\ RaiseError(p, "AttributeError")
    /\ UNCHANGED << db, locals, started, recommender >>

\* get_similar_books_by_fingerprint; the candidate query has no ORDER BY
GetSimilarBooksByFingerprint(p, book_id, limit, exclude_book_ids) ==
    /\ pc[p] = "idle"
    /\ req' = [req EXCEPT ![p] = [kind |-> "similar_by_fingerprint", book |-> book_id,
                                  limit |-> limit, exclude |-> exclude_book_ids]]
    /\ \E scan \in ScanOrders(FingerprintCandidates(fingerprints, book_id, exclude_book_ids)) :
          ReturnValue(p, SimilarBooksByFingerprint(fingerprints, book_id, limit, scan))
    /\ UNCHANGED << db, locals, started, recommender >>

\* the caller has taken the result
Return(p) ==
    /\ pc[p] = "done"
    /\ pc' = [pc EXCEPT ![p] = "idle"]
    /\ req' = [req EXCEPT ![p] = NoReq]
    /\ resp' = [resp EXCEPT ![p] = NoResp]
    /\ highly_rated_book_ids' = [highly_rated_book_ids EXCEPT ![p] = << >>]
    /\ exclude_ids' = [exclude_ids EXCEPT ![p] = {}]
    /\ recommendations' = [recommendations EXCEPT ![p] = << >>]
    /\ UNCHANGED << db, locals, started, user_books >>

\* no call of the service is running
NoCalls ==
    /\ nextId = MaxRecBooks + 1
    /\ pc = [p \in Slots |-> "idle"]
    /\ req = [p \in Slots |-> NoReq]
    /\ existing = [p \in Slots |-> NoRow]
    /\ stats = [p \in Slots |-> NoStats]
    /\ fingerprint = [p \in Slots |-> NoFp]
    /\ resp = [p \in Slots |-> NoResp]
    /\ started = 0
    /\ highly_rated_book_ids = [p \in Slots |-> << >>]
    /\ exclude_ids = [p \in Slots |-> {}]
    /\ recommendations = [p \in Slots |-> << >>]

\* a snapshot for the similarity functions, which read book_fingerprints only
InitSim ==
    /\ NoCalls
    /\ ratings = {}
    /\ user_books = {}
    /\ fingerprints \in FingerprintTables

NextSim ==
    \/ \E b \in RecBookIds, limit \in Limits, excl \in ExcludeArgs :
          GetSimilarBooksByEmbedding(1, b, limit, excl)
    \/ \E b \in RecBookIds, limit \in Limits, excl \in ExcludeArgs :
          GetSimilarBooksByFingerprint(1, b, limit, excl)
    \/ Return(1)

\* calls of the two similarity functions, one at a time
SpecSim == InitSim /\ [][NextSim]_vars

(* ---------------- get_personalized_recommendations ---------------- *)
\* pc while the call awaits get_similar_books_by_fingerprint for the i-th favorite
LoopLabel(i) == << "similar_1", "similar_2", "similar_3" >>[i]

\* a return of the whole sorted list
FinishUntruncated(p, recs) ==
    /\ recommendations' = [recommendations EXCEPT ![p] = SortByScore(recs)]
    /\ ReturnValue(p, SortByScore(recs))

\* "recommendations.sort(...); return recommendations[:limit]"
Finish(p, recs) ==
    /\ recommendations' = [recommendations EXCEPT ![p] = SortByScore(recs)]
    /\ ReturnValue(p, Take(SortByScore(recs), req[p].limit))

\* the call, "Get user's reading history", "Get user's highly-rated books" (a
\* query without ORDER BY) and "Books to exclude"
GetPersonalizedRecommendations(p, user_id, limit, exclude_read) ==
    /\ pc[p] = "idle"
    /\ req' = [req EXCEPT ![p] = [kind |-> "recommend", user |-> user_id, limit |-> limit,
                                  exclude_read |-> exclude_read]]
    /\ \E user_ratings \in ScanOrders({ r \in ratings : r.user_id = user_id }) :
          /\ highly_rated_book_ids' =
                [highly_rated_book_ids EXCEPT ![p] = HighlyRatedBookIds(user_ratings)]
          /\ pc' = [pc EXCEPT ![p] =
                IF HighlyRatedBookIds(user_ratings) = << >> THEN "popular" ELSE LoopLabel(1)]
    /\ exclude_ids' = [exclude_ids EXCEPT ![p] =
          ExcludeIds({ ub \in user_books : ub.user_id = user_id }, exclude_read)]
    /\ recommendations' = [recommendations EXCEPT ![p] = << >>]
    /\ UNCHANGED << db, locals, resp, started, user_books >>

\* "Strategy 1": one turn of the loop over highly_rated_book_ids[:3]; after the
\* last turn the function goes on to the popularity query, or returns
SimilarToFavorite(p) ==
    /\ \E i \in 1..MaxFavorites :
          /\ pc[p] = LoopLabel(i)
          /\ LET favorites == Take(highly_rated_book_ids[p], MaxFavorites)
                 book_id   == favorites[i]
             IN  \E scan \in ScanOrders(FingerprintCandidates(fingerprints, book_id,
                                                              exclude_ids[p])) :
                    LET similar == SimilarBooksByFingerprint(fingerprints, book_id,
                                                             SimilarPerFavorite, scan)
                        acc == AddSimilar([recommendations |-> recommendations[p],
                                           exclude_ids     |-> exclude_ids[p]], similar)
                    IN  /\ exclude_ids' = [exclude_ids EXCEPT ![p] = acc.exclude_ids]
                        /\ IF i < Len(favorites)
                           THEN /\ recommendations' =
                                      [recommendations EXCEPT ![p] = acc.recommendations]
                                /\ pc' = [pc EXCEPT ![p] = LoopLabel(i + 1)]
                                /\ UNCHANGED resp
                           ELSE IF Len(acc.recommendations) < req[p].limit
                           THEN /\ recommendations' =
                                      [recommendations EXCEPT ![p] = acc.recommendations]
                                /\ pc' = [pc EXCEPT ![p] = "popular"]
                                /\ UNCHANGED resp
                           ELSE Finish(p, acc.recommendations)
    /\ UNCHANGED << db, locals, req, started, user_books, highly_rated_book_ids >>

\* "Strategy 3": the popularity query, then the sort and the return
PopularityFallback(p) ==
    /\ pc[p] = "popular"
    /\ IF Len(recommendations[p]) < req[p].limit
       THEN \E popular \in PopularOrders(PopularRows(fingerprints, exclude_ids[p])) :
               Finish(p, AddPopular(recommendations[p],
                                    Take(popular, req[p].limit - Len(recommendations[p]))))
       ELSE Finish(p, recommendations[p])
    /\ UNCHANGED << db, locals, req, started, user_books, highly_rated_book_ids, exclude_ids >>

\* the rating row of user 1 for book b: a star equivalent of 4.0 ("high") or
\* 3.5; the rows were created in the order of their ids, the row of book 1 was
\* updated after that
RatingSample(b, kind) ==
    [id |-> b, user_id |-> 1, book_id |-> b,
     dims |-> [d \in Dims |-> IF d = "pace" THEN (IF kind = "high" THEN 5 ELSE 4)
                              ELSE IF d = "complexity" THEN 3 ELSE Null],
     created_at |-> b, updated_at |-> IF b = 1 THEN MaxRecBooks + 1 ELSE Null]

\* sample books: how user 1 rated the book, its fingerprint, its status in the
\* library of user 1
BookSamples ==
    LET Fast     == Feel(<< 5, 1 >>, NullAvg)
        FastToo  == Feel(<< 5, 1 >>, << 3, 1 >>)
        Dense    == Feel(<< 9, 2 >>, << 4, 1 >>)
        Unloved  == Feel(<< 5, 1 >>, << 2, 1 >>)
    IN  << [rating |-> "high", fp |-> FpSample(Fast, 3),     status |-> "finished"],
           [rating |-> "high", fp |-> NoStats,               status |-> "none"],
           [rating |-> "high", fp |-> FpSample(Fast, 2),     status |-> "none"],
           [rating |-> "high", fp |-> FpSample(FastToo, 10), status |-> "want_to_read"],
           [rating |-> "high", fp |-> FpSample(FastToo, 10), status |-> "none"],
           [rating |-> "none", fp |-> FpSample(FastToo, 10), status |-> "none"],
           [rating |-> "none", fp |-> FpSample(Dense, 12),   status |-> "currently_reading"],
           [rating |-> "none", fp |-> FpSample(Dense, 12),   status |-> "dnf"],
           [rating |-> "low",  fp |-> FpSample(Unloved, 12), status |-> "none"] >>

\* the catalogues of MaxRecBooks sample books; the service never looks at the
\* value of an id, so the books are numbered in the order of the samples
Catalogues ==
    { t \in [RecBooks -> 1..Len(BookSamples)] : \A a, b \in RecBooks : a < b => t[a] <= t[b] }

\* a snapshot of the three tables: every book is one of the sample books
InitRec ==
    /\ NoCalls
    /\ \E t \in Catalogues :
          LET book == [b \in RecBooks |-> BookSamples[t[b]]]
          IN  /\ ratings = { RatingSample(b, book[b].rating) :
                                b \in { x \in RecBooks : book[x].rating # "none" } }
              /\ fingerprints = { FpNew(b, book[b].fp) :
                                     b \in { x \in RecBooks : book[x].fp # NoStats } }
              /\ user_books = { [user_id |-> 1, book_id |-> b, status |-> book[b].status] :
                                   b \in { x \in RecBooks : book[x].status # "none" } }

NextRec ==
    \/ \E u \in Users, limit \in Limits, exclude_read \in BOOLEAN :
          GetPersonalizedRecommendations(1, u, limit, exclude_read)
    \/ SimilarToFavorite(1)
    \/ PopularityFallback(1)
    \/ Return(1)

\* calls of get_personalized_recommendations, one at a time
SpecRec == InitRec /\ [][NextRec]_vars

(* ---------------- get_books_by_mood ---------------- *)
\* averages for the dimensions the moods look at (NULL elsewhere)
MoodFeel(dim1, avg1, dim2, avg2) ==
    [d \in Dims |-> IF d = dim1 THEN avg1 ELSE IF d = dim2 THEN avg2 ELSE NullAvg]

\* sample fingerprints: inside a mood's bounds, on the bounds, outside one
\* bound, NULL in one dimension, with 2 to 5 ratings
MoodSamples ==
    << FpSample(MoodFeel("emotional_impact", << 21, 5 >>, "complexity", << 2, 1 >>), 5),
       FpSample(MoodFeel("emotional_impact", << 4, 1 >>, "complexity", << 3, 1 >>), 5),
       FpSample(MoodFeel("emotional_impact", << 4, 1 >>, "complexity", << 3, 1 >>), 4),
       FpSample(MoodFeel("emotional_impact", << 21, 5 >>, "complexity", << 2, 1 >>), 3),
       FpSample(MoodFeel("emotional_impact", << 21, 5 >>, "complexity", << 2, 1 >>), 2),
       FpSample(MoodFeel("emotional_impact", << 5, 1 >>, "complexity", << 4, 1 >>), 5),
       FpSample(MoodFeel("emotional_impact", << 5, 1 >>, "complexity", NullAvg), 5),
       FpSample(MoodFeel("emotional_impact", << 7, 2 >>, "complexity", << 1, 1 >>), 5),
       FpSample(MoodFeel("complexity", << 4, 1 >>, "originality", << 9, 2 >>), 5),
       FpSample(MoodFeel("pace", << 4, 1 >>, "plot_quality", << 4, 1 >>), 6),
       FpSample(MoodFeel("pace", << 5, 2 >>, "prose_style", << 4, 1 >>), 5),
       FpSample(MoodFeel("pace", << 8, 3 >>, "prose_style", << 5, 1 >>), 5) >>

\* the tables book_fingerprints of MaxRecBooks sample rows, the books numbered
\* in the order of the samples
MoodTables ==
    { { FpNew(b, MoodSamples[t[b]]) : b \in RecBooks } :
        t \in { u \in [RecBooks -> 1..Len(MoodSamples)] :
                  \A a, b \in RecBooks : a < b => u[a] <= u[b] } }

\* get_books_by_mood
GetBooksByMood(p, mood, limit) ==
    /\ pc[p] = "idle"
    /\ req' = [req EXCEPT ![p] = [kind |-> "by_mood", mood |-> mood, limit |-> limit]]
    /\ \E scan \in ( IF FiltersOf(mood) = {} THEN { << >> }   \* no query is sent
                     ELSE ScanOrders(MoodRows(fingerprints, FiltersOf(mood))) ) :
          ReturnValue(p, BooksByMood(mood, limit, scan))
    /\ UNCHANGED << db, locals, started, recommender >>

\* a snapshot for get_books_by_mood, which reads books and book_fingerprints
InitMood ==
    /\ NoCalls
    /\ ratings = {}
    /\ user_books = {}
    /\ fingerprints \in MoodTables

NextMood ==
    \/ \E mood \in MoodLabels, limit \in Limits : GetBooksByMood(1, mood, limit)
    \/ Return(1)

\* calls of get_books_by_mood, one at a time
SpecMood == InitMood /\ [][NextMood]_vars

(* ---------------- cosine_similarity (backend/app/services/embeddings.py) ---------------- *)
\* the components of the vectors the function is called with
VecValues == { << 0 - 1, 1 >>, << 0, 1 >>, << 1, 1 >>, << 2, 1 >> }

\* the vectors of at most MaxVecLen components
Vectors == UNION { [1..n -> VecValues] : n \in 0..MaxVecLen }

\* a call of cosine_similarity: it returns a number or raises
CallCosineSimilarity(p, vec1, vec2) ==
    /\ pc[p] = "idle"
    /\ req' = [req EXCEPT ![p] = [kind |-> "cosine_similarity", vec1 |-> vec1, vec2 |-> vec2]]
    /\ LET out == CosineSimilarity(vec1, vec2)
       IN  IF Len(out) = 1 THEN RaiseError(p, out[1]) ELSE ReturnValue(p, out)
    /\ UNCHANGED << db, locals, started, recommender >>

\* the function reads no table
InitCos ==
    /\ NoCalls
    /\ ratings = {}
    /\ user_books = {}
    /\ fingerprints = {}

NextCos ==
    \/ \E vec1, vec2 \in Vectors : CallCosineSimilarity(1, vec1, vec2)
    \/ Return(1)

\* calls of cosine_similarity on pairs of vectors
SpecCos == InitCos /\ [][NextCos]_vars

(* ======================================================================= *)
(* The trigger that backend/scripts/init_db.py installs on                 *)
(* multi_dimensional_ratings: AFTER INSERT OR UPDATE OR DELETE, FOR EACH   *)
(* ROW, it runs the function update_book_fingerprint() inside the          *)
(* statement that changed the row.                                         *)
(* ======================================================================= *)
\* the columns of the table multi_dimensional_ratings (star_equivalent is a
\* Python property of the class, not a column)
RatingColumns == { "id", "user_id", "book_id", "created_at", "updated_at" } \cup Dims

\* the columns of multi_dimensional_ratings the SELECT of the function names
TriggerSelectColumns == { "book_id", "star_equivalent" } \cup Dims

\* x::DECIMAL(3,2) for x >= 0: rounded to two decimals, half away from zero
Decimal32(x) ==
    IF x = NullAvg THEN NullAvg
    ELSE Frac((2 * 100 * x[1] + x[2]) \div (2 * x[2]), 100)

\* the value of a column of a rating row
ColumnOf(r, col) == IF col \in Dims THEN r.dims[col] ELSE r[col]

\* AVG(col) over the rows: NULLs are skipped, NULL over no value
TriggerAvg(rows, col) ==
    LET nn == { r \in rows : ColumnOf(r, col) # Null }
    IN  IF nn = {} THEN NullAvg
        ELSE Frac(SumOver([r \in nn |-> ColumnOf(r, col)], nn), Cardinality(nn))

\* the function update_book_fingerprint() fired for a row of book b, rows being
\* the table after the change: the error it ends with ("none" when it
\* completes) and the table book_fingerprints it leaves.  PostgreSQL resolves
\* the columns of the INSERT ... SELECT when the function first runs it and
\* raises undefined_column for a name the table lacks.  A SELECT ... GROUP BY
\* over no row yields no row, and then nothing is inserted or updated.
TriggerFunction(rows, fps, b) ==
    IF ~ (TriggerSelectColumns \subseteq RatingColumns)
    THEN [error |-> "UndefinedColumn", fingerprints |-> fps]
    ELSE IF RatingsOf(rows, b) = {}
    THEN [error |-> "none", fingerprints |-> fps]
    ELSE LET grp == RatingsOf(rows, b)
             row == [book_id         |-> b,
                     avg             |-> [d \in Dims |-> Decimal32(TriggerAvg(grp, d))],
                     star_equivalent |-> Decimal32(TriggerAvg(grp, "star_equivalent")),
                     total_ratings   |-> Cardinality(grp)]
         IN  [error |-> "none",
              fingerprints |-> { f \in fps : f.book_id # b } \cup { row }]

\* a statement that changes a rating row of book b into the table rows: the
\* trigger fires in the statement; when its function raises, the statement
\* fails and changes nothing
RatingStatement(p, rows, b) ==
    LET fired == TriggerFunction(rows, fingerprints, b)
    IN  IF fired.error # "none"
        THEN /\ RaiseError(p, fired.error)
             /\ UNCHANGED << ratings, fingerprints >>
        ELSE /\ ReturnValue(p, "done")
             /\ ratings' = rows
             /\ fingerprints' = fired.fingerprints

\* INSERT INTO multi_dimensional_ratings
InsertRating(p, u, b, dims) ==
    /\ pc[p] = "idle"
    /\ UniqueUserBook(ratings, u, b)
    /\ req' = [req EXCEPT ![p] = [kind |-> "insert", user |-> u, book |-> b, dims |-> dims]]
    /\ RatingStatement(p, ratings \cup { [id |-> nextId, user_id |-> u, book_id |-> b,
                                          dims |-> dims] }, b)
    /\ UNCHANGED << nextId, locals, started, recommender >>

\* the rating row of user u for book b
RowOf(u, b) == CHOOSE r \in ratings : r.user_id = u /\ r.book_id = b

\* UPDATE multi_dimensional_ratings SET ... WHERE id = :id, on the row of user u for book b
UpdateRating(p, u, b, dims) ==
    /\ pc[p] = "idle"
    /\ ~UniqueUserBook(ratings, u, b)
    /\ req' = [req EXCEPT ![p] = [kind |-> "update", user |-> u, book |-> b, dims |-> dims]]
    /\ RatingStatement(p, (ratings \ { RowOf(u, b) })
                             \cup { [RowOf(u, b) EXCEPT !.dims = dims] }, b)
    /\ UNCHANGED << nextId, locals, started, recommender >>

\* DELETE FROM multi_dimensional_ratings WHERE id = :id, on the row of user u for book b
DeleteRatingRow(p, u, b) ==
    /\ pc[p] = "idle"
    /\ ~UniqueUserBook(ratings, u, b)
    /\ req' = [req EXCEPT ![p] = [kind |-> "delete_row", user |-> u, book |-> b,
                                  dims |-> RowOf(u, b).dims]]
    /\ RatingStatement(p, ratings \ { RowOf(u, b) }, b)
    /\ UNCHANGED << nextId, locals, started, recommender >>

\* the values of the dimensions of a row: the first MaxSeqDims dimensions are
\* NULL or an extreme value, the others NULL
RowDims ==
    { [d \in Dims |-> IF d \in DOMAIN f THEN f[d] ELSE Null] :
        f \in [{ DimSeq[i] : i \in 1..MaxSeqDims } -> { Null, MinRating, MaxRating }] }

\* the tables when init_db installs the trigger: every user has at most one
\* rating of book 1, and the fingerprint row of the book, written by the
\* application's recompute, is up to date (there is none without ratings)
InitTrig ==
    /\ NoCalls
    /\ user_books = {}
    /\ \E raters \in SUBSET Users :
          \E dims \in [raters -> RowDims] :
             ratings = { [id |-> u, user_id |-> u, book_id |-> 1, dims |-> dims[u]] :
                           u \in raters }
    /\ fingerprints = IF ratings = {} THEN {} ELSE { FpNew(1, AggStats(ratings, 1)) }

NextTrig ==
    \/ \E u \in Users, b \in Books, dims \in RowDims : InsertRating(1, u, b, dims)
    \/ \E u \in Users, b \in Books, dims \in RowDims : UpdateRating(1, u, b, dims)
    \/ \E u \in Users, b \in Books : DeleteRatingRow(1, u, b)
    \/ Return(1)

\* statements on multi_dimensional_ratings in a database set up by init_db
SpecTrig == InitTrig /\ [][NextTrig]_vars

(* ======================================================================= *)
(* Properties                                                              *)
(* ======================================================================= *)

RECURSIVE ProdDen(_, _)
\* product of the denominators of f[x], x in S
ProdDen(f, S) ==
    IF S = {} THEN 1
    ELSE LET x == CHOOSE y \in S : TRUE IN f[x][2] * ProdDen(f, S \ {x})

RECURSIVE NumSum(_, _, _)
\* sum of f[x] (x in S) as a numerator over the common denominator D
NumSum(f, S, D) ==
    IF S = {} THEN 0
    ELSE LET x == CHOOSE y \in S : TRUE
         IN  f[x][1] * (D \div f[x][2]) + NumSum(f, S \ {x}, D)

\* x is the mean of dimension d over the rows that rate d, NULL when none does
IsMeanOf(x, rows, d) ==
    LET rated == { r \in rows : r.dims[d] \in MinRating..MaxRating }
    IN  IF rated = {} THEN x = NullAvg
        ELSE /\ x[2] > 0
             /\ x[1] * Cardinality(rated) = x[2] * SumOver([r \in rated |-> r.dims[d]], rated)

\* s is the mean of the averages that are not NULL, NULL when all are
IsStarOf(s, avg) ==
    LET given == { d \in Dims : avg[d] # NullAvg }
        D     == ProdDen(avg, given)
    IN  IF given = {} THEN s = NullAvg
        ELSE /\ s[2] > 0
             /\ s[1] * Cardinality(given) * D = s[2] * NumSum(avg, given, D)

\* f holds the aggregate of the rating rows `rows`
IsFingerprintOf(f, rows) ==
    /\ \A d \in Dims : IsMeanOf(f.avg[d], rows, d)
    /\ IsStarOf(f.star_equivalent, f.avg)
    /\ f.total_ratings = Cardinality(rows)

HasFingerprint(b) == \E f \in fingerprints : f.book_id = b

FingerprintRow(b) == CHOOSE f \in fingerprints : f.book_id = b

\* the fingerprint of book b as a reader takes it: the stored row, or the
\* zero-value fingerprint when there is none
FingerprintView(b) == IF HasFingerprint(b) THEN FingerprintRow(b) ELSE NoStats

UpToDate(b) == IsFingerprintOf(FingerprintView(b), RatingsOf(ratings, b))

Finished(p) == pc[p] = "done"

Succeeded(p) == Finished(p) /\ resp[p].status \in { 200, 201, 204 }

Mutation(p) == req[p].kind \in { "post", "delete" }

\* C1: whenever no request is in flight, the stored fingerprint of every book
\* is the aggregate of the ratings that exist for the book.
C1_FingerprintMatchesRatings ==
    (\A p \in Slots : pc[p] \in { "idle", "done" }) => \A b \in Books : UpToDate(b)

\* C2: once two rating mutations of different users for the same book have
\* both finished successfully, the fingerprint of the book reflects both.
C2_NoLostUpdate ==
    \A p, q \in Slots :
        ( /\ p # q
          /\ Succeeded(p) /\ Succeeded(q)
          /\ Mutation(p) /\ Mutation(q)
          /\ req[p].book = req[q].book
          /\ req[p].user # req[q].user )
        => UpToDate(req[p].book)

\* C3: a rating request repeated after its fingerprint recompute failed, and
\* answered without a server error, leaves the fingerprint of its book equal
\* to the aggregate of the ratings of the book.
C3_RetryRestoresFingerprint ==
    \A p \in Slots :
        (Finished(p) /\ req[p].retry /\ resp[p].status # 500) => UpToDate(req[p].book)

\* a rating request whose recompute has committed: its answer is the success status
Recomputed(p) == Succeeded(p) /\ Mutation(p)

\* C4: after a recompute, every one of the 7 averages of the fingerprint row is
\* the mean of that dimension over the ratings of the book that rate it (a
\* NULL counts neither as 0 nor as 3), and NULL when no rating rates it.
C4_AveragesOverNonNull ==
    \A p \in Slots :
        Recomputed(p) =>
            /\ HasFingerprint(req[p].book)
            /\ \A d \in Dims :
                  IsMeanOf(FingerprintRow(req[p].book).avg[d], RatingsOf(ratings, req[p].book), d)

\* C4 witness: a recompute over two ratings of which one leaves pace NULL and
\* the other rates it, while no rating rates originality.
C4_Witness ==
    \E p \in Slots :
        /\ Recomputed(p)
        /\ HasFingerprint(req[p].book)
        /\ \E r1, r2 \in RatingsOf(ratings, req[p].book) :
              r1.dims["pace"] = Null /\ r2.dims["pace"] = MaxRating
        /\ FingerprintRow(req[p].book).avg["pace"] = << MaxRating, 1 >>
        /\ FingerprintRow(req[p].book).avg["originality"] = NullAvg

\* no rating of the book rates any dimension
NothingRated(b) == \A r \in RatingsOf(ratings, b) : \A d \in Dims : r.dims[d] = Null

\* C5 as claimed: when no dimension has a non-null value among the ratings of
\* the book, the recompute stores star_equivalent NULL and total_ratings 0.
C5_ZeroCountWhenNothingRated ==
    \A p \in Slots :
        (Recomputed(p) /\ NothingRated(req[p].book)) =>
            /\ FingerprintView(req[p].book).star_equivalent = NullAvg
            /\ FingerprintView(req[p].book).total_ratings = 0

\* C5 amended: when no dimension has a non-null value among the ratings of the
\* book, the recompute stores star_equivalent NULL, every average NULL, and
\* total_ratings = the number of rating rows of the book (0 only without rows).
C5_RowCountWhenNothingRated ==
    \A p \in Slots :
        (Recomputed(p) /\ NothingRated(req[p].book)) =>
            /\ HasFingerprint(req[p].book)
            /\ FingerprintRow(req[p].book).star_equivalent = NullAvg
            /\ \A d \in Dims : FingerprintRow(req[p].book).avg[d] = NullAvg
            /\ FingerprintRow(req[p].book).total_ratings
                 = Cardinality(RatingsOf(ratings, req[p].book))

\* C5 witness: a recompute over a rating row whose dimensions are all NULL.
C5_Witness ==
    \E p \in Slots :
        /\ Recomputed(p)
        /\ NothingRated(req[p].book)
        /\ RatingsOf(ratings, req[p].book) # {}
        /\ FingerprintView(req[p].book).total_ratings = 1

\* C6: a successful delete that leaves the book without ratings leaves its
\* fingerprint row with total_ratings 0, the seven averages and star_equivalent NULL.
C6_DeleteOnlyRatingResets ==
    \A p \in Slots :
        (Recomputed(p) /\ req[p].kind = "delete" /\ RatingsOf(ratings, req[p].book) = {}) =>
            /\ HasFingerprint(req[p].book)
            /\ FingerprintRow(req[p].book).total_ratings = 0
            /\ FingerprintRow(req[p].book).star_equivalent = NullAvg
            /\ \A d \in Dims : FingerprintRow(req[p].book).avg[d] = NullAvg

\* C6 witness: the only rating of a book has been deleted and the delete answered 204.
C6_Witness ==
    \E p \in Slots :
        /\ Recomputed(p) /\ req[p].kind = "delete"
        /\ RatingsOf(ratings, req[p].book) = {}
        /\ HasFingerprint(req[p].book)
        /\ nextId = 2

\* request p takes a step
Steps(p) == pc'[p] # pc[p]

\* C7: a recompute that runs when the stored row of the book already holds the
\* aggregate of the current ratings (the previous recompute saw the same
\* ratings) leaves the table book_fingerprints as it is: same averages,
\* star_equivalent and total_ratings, and no second row for the book.
C7_RecomputeIdempotent ==
    [][ \A p \in Slots :
          ( /\ pc[p] = "commit_fingerprint" /\ Steps(p)
            /\ HasFingerprint(req[p].book)
            /\ IsFingerprintOf(FingerprintRow(req[p].book), RatingsOf(ratings, req[p].book))
            /\ stats[p] = AggStats(ratings, req[p].book) )
          => /\ fingerprints' = fingerprints
             /\ Cardinality({ f \in fingerprints' : f.book_id = req[p].book }) = 1
             /\ resp'[p].status # 500 \/ resp'[p].error = "OperationalError" ]_vars

\* C7 witness: an update that mentions no dimension has been answered 201: the
\* rating did not change and the recompute ran again on a row that was up to date.
C7_Witness ==
    \E p \in Slots :
        /\ Recomputed(p) /\ req[p].kind = "post"
        /\ UpdateKeys(req[p].data) = {}
        /\ resp[p].rating.dims["pace"] = MaxRating
        /\ HasFingerprint(req[p].book)
        /\ FingerprintRow(req[p].book).avg["pace"] = << MaxRating, 1 >>
        /\ started = 2

\* C8: no two rating rows have the same user and book, and a create request
\* that found a rating of its user for the book adds no row.
C8_OneRatingPerUserAndBook ==
    [][ /\ \A r1, r2 \in ratings' :
              (r1.user_id = r2.user_id /\ r1.book_id = r2.book_id) => r1 = r2
        /\ \A p \in Slots :
              (pc[p] = "commit_rating" /\ Steps(p) /\ existing[p] # NoRow)
              => { r.id : r \in ratings' } \subseteq { r.id : r \in ratings } ]_vars

\* C8 witness: two requests of one user created a rating for the same book
\* concurrently; one row was inserted and the other insert was refused.
C8_Witness ==
    \E p, q \in Slots :
        /\ p # q
        /\ req[p].kind = "post" /\ req[q].kind = "post"
        /\ req[p].user = req[q].user /\ req[p].book = req[q].book
        /\ Finished(p) /\ resp[p].status = 500 /\ resp[p].error = "IntegrityError"
        /\ resp[p].at = "commit_rating"
        /\ Cardinality({ r \in ratings : r.user_id = req[p].user /\ r.book_id = req[p].book }) = 1

\* C9: a rating request is answered with success only by the commit that ends
\* the fingerprint recompute of its book, which leaves a fingerprint row for
\* the book; a delete that finds no rating is answered 404 (unless the storage
\* fails) and changes neither table.
C9_SuccessOnlyAfterRecompute ==
    [][ \A p \in Slots :
          /\ ( /\ Steps(p) /\ pc'[p] = "done" /\ Mutation(p)
               /\ resp'[p].status \in { 200, 201, 204 } )
             => /\ pc[p] = "commit_fingerprint"
                /\ \E f \in fingerprints' : f.book_id = req[p].book
                /\ ratings' = ratings
          /\ ( /\ pc[p] = "delete_select" /\ Steps(p)
               /\ ~ \E r \in ratings : r.user_id = req[p].user /\ r.book_id = req[p].book )
             => /\ resp'[p].status = 404 \/ resp'[p].error = "OperationalError"
                /\ ratings' = ratings /\ fingerprints' = fingerprints ]_vars

\* C9 witness: a delete has been answered 204 and another delete 404.
C9_Witness ==
    \E p, q \in Slots :
        /\ Recomputed(p) /\ req[p].kind = "delete"
        /\ Finished(q) /\ req[q].kind = "delete" /\ resp[q].status = 404

\* C10: reading the fingerprint of an existing book that has no fingerprint row
\* is answered (unless the storage fails) with the zero-value fingerprint, as a
\* stored row with zero count would be, and creates no row.
C10_ReadMissingRowGivesZeroValue ==
    \A p \in Slots :
        ( /\ Finished(p) /\ req[p].kind = "get_fingerprint"
          /\ req[p].book \in Books /\ ~HasFingerprint(req[p].book)
          /\ resp[p].status # 200 => resp[p].error # "OperationalError" )
        => /\ resp[p].status = 200
           /\ resp[p].body.total_ratings = 0
           /\ resp[p].body.star_equivalent = NullAvg
           /\ \A d \in Dims : resp[p].body.avg[d] = NullAvg

(* ---------------- the similarity functions ---------------- *)
Elems(s) == { s[i] : i \in 1..Len(s) }

\* a call of get_similar_books_by_fingerprint has come to its end
SimilarByFingerprintDone(p) == Finished(p) /\ req[p].kind = "similar_by_fingerprint"

\* C18: fingerprint similarity returns the empty list when the anchor book has
\* no fingerprint row or one with fewer than 3 ratings, and every book it
\* returns has a fingerprint row with at least 3 ratings.
C18_ReliabilityFloor ==
    \A p \in Slots :
        SimilarByFingerprintDone(p) =>
            /\ resp[p].status = "returned"
            /\ ( \/ ~HasFingerprint(req[p].book)
                 \/ FingerprintRow(req[p].book).total_ratings < 3 )
               => resp[p].value = << >>
            /\ \A b \in Elems(resp[p].value) :
                  HasFingerprint(b) /\ FingerprintRow(b).total_ratings >= 3

\* C18 witness: a call returned books while another book, neither the anchor
\* nor excluded, has a fingerprint of fewer than 3 ratings.
C18_Witness ==
    \E p \in Slots :
        /\ SimilarByFingerprintDone(p)
        /\ resp[p].status = "returned" /\ resp[p].value # << >>
        /\ \E f \in fingerprints :
              /\ f.book_id # req[p].book /\ f.book_id \notin req[p].exclude
              /\ f.total_ratings < 3

SimilarityTo(anchor, b) ==
    CosineSimilarity(FingerprintVector(FingerprintRow(anchor)),
                     FingerprintVector(FingerprintRow(b)))

\* book a ranks before book b: higher similarity to the anchor, or the same and a lower id
RanksBefore(anchor, a, b) ==
    \/ FracLess(SimilarityTo(anchor, b), SimilarityTo(anchor, a))
    \/ SimilarityTo(anchor, a) = SimilarityTo(anchor, b) /\ a < b

\* C20: the books fingerprint similarity returns are in descending order of
\* cosine similarity to the anchor, equal similarities in ascending order of
\* book id; they are at most limit books, and no candidate left out ranks
\* before a returned one.
C20_RankedBySimilarityThenId ==
    \A p \in Slots :
        (SimilarByFingerprintDone(p) /\ resp[p].status = "returned"
            /\ resp[p].value # << >>) =>
            LET out  == resp[p].value
                cand == { f.book_id : f \in FingerprintCandidates(fingerprints, req[p].book,
                                                                  req[p].exclude) }
            IN  /\ Len(out) <= req[p].limit
                /\ \A i, j \in 1..Len(out) : i < j => RanksBefore(req[p].book, out[i], out[j])
                /\ \A c \in cand \ Elems(out), i \in 1..Len(out) :
                      RanksBefore(req[p].book, out[i], c)

(* ---------------- embedding similarity ---------------- *)
\* a call of get_similar_books_by_embedding has come to its end
SimilarByEmbeddingDone(p) == Finished(p) /\ req[p].kind = "similar_by_embedding"

\* the books other than the anchor and the excluded ones: the rows the
\* candidate query of embedding similarity may draw its pool from
EmbeddingPool(p) == (RecBooks \ { req[p].book }) \ req[p].exclude

C22_NoEmbeddingGivesEmptyList ==
    \A p \in Slots :
        ( /\ SimilarByEmbeddingDone(p)
          /\ req[p].book \notin RecBooks \/ "description_embedding" \notin BookAttributes )
        => /\ resp[p].status = "returned"
           /\ resp[p].value = << >>

(* ---------------- get_personalized_recommendations ---------------- *)
\* slot p runs, or has just finished, a call of get_personalized_recommendations
Recommending(p) == pc[p] # "idle" /\ req[p].kind = "recommend"

RecommendDone(p) == Finished(p) /\ req[p].kind = "recommend"

\* the book ids of a list of recommendations, in order
BookIdsOf(recs) == [i \in 1..Len(recs) |-> recs[i].book]

NoRepeats(s) == \A i, j \in 1..Len(s) : s[i] = s[j] => i = j

\* the favorites the loop of the call visits
Favorites(p) == Take(highly_rated_book_ids[p], MaxFavorites)

\* book b has a fingerprint of at least 3 ratings
Reliable(b) == HasFingerprint(b) /\ FingerprintRow(b).total_ratings >= 3

\* book b has a fingerprint of at least 10 ratings and a star equivalent of at least 4.0
Popular(b) ==
    /\ HasFingerprint(b)
    /\ FingerprintRow(b).total_ratings >= 10
    /\ FingerprintRow(b).star_equivalent # NullAvg
    /\ FingerprintRow(b).star_equivalent[1] >= 4 * FingerprintRow(b).star_equivalent[2]

\* C11: the list recommend builds, and the list it returns, never hold the
\* same book id twice: a book added for one favorite is added neither for a
\* later favorite nor by the popularity fallback.
C11_NoDuplicateBooks ==
    \A p \in Slots :
        Recommending(p) =>
            /\ NoRepeats(BookIdsOf(recommendations[p]))
            /\ Finished(p) => /\ resp[p].status = "returned"
                              /\ NoRepeats(BookIdsOf(resp[p].value))

\* C11 witness: a returned book is similar to two favorites of the call and
\* qualifies for the popularity fallback, which ran.
C11_Witness ==
    \E p \in Slots :
        /\ RecommendDone(p)
        /\ Len(recommendations[p]) < req[p].limit
        /\ \E i, j \in 1..Len(Favorites(p)) :
              /\ i < j
              /\ Reliable(Favorites(p)[i]) /\ Reliable(Favorites(p)[j])
              /\ \E k \in 1..Len(resp[p].value) :
                    /\ resp[p].value[k].score = SimilarScore
                    /\ resp[p].value[k].book \notin { Favorites(p)[i], Favorites(p)[j] }
                    /\ Popular(resp[p].value[k].book)

\* the status of book b in the library of user u ("none" without a row)
StatusOf(u, b) ==
    IF \E ub \in user_books : ub.user_id = u /\ ub.book_id = b
    THEN (CHOOSE ub \in user_books : ub.user_id = u /\ ub.book_id = b).status
    ELSE "none"

\* C12: recommend returns no book of the exclusion set: with exclude_read, no
\* book of the library of the user whatever its status; without it, no book
\* whose status is finished or dnf.
C12_NoExcludedBook ==
    \A p \in Slots :
        RecommendDone(p) =>
            /\ resp[p].status = "returned"
            /\ \A b \in Elems(BookIdsOf(resp[p].value)) :
                  IF req[p].exclude_read
                  THEN StatusOf(req[p].user, b) = "none"
                  ELSE StatusOf(req[p].user, b) \notin { "finished", "dnf" }

\* C12 witness: a call without exclude_read returned a want_to_read book and a
\* currently_reading book, while a dnf book with a reliable fingerprint exists.
C12_Witness ==
    \E p \in Slots :
        /\ RecommendDone(p) /\ ~req[p].exclude_read
        /\ \E b1, b2 \in Elems(BookIdsOf(resp[p].value)) :
              /\ StatusOf(req[p].user, b1) = "want_to_read"
              /\ StatusOf(req[p].user, b2) = "currently_reading"
        /\ \E b \in RecBooks : StatusOf(req[p].user, b) = "dnf" /\ Reliable(b)
        /\ \E i \in 1..Len(Favorites(p)) : Reliable(Favorites(p)[i])

\* C13: the list recommend returns has at most limit entries.
C13_AtMostLimit ==
    \A p \in Slots :
        RecommendDone(p) =>
            /\ resp[p].status = "returned"
            /\ Len(resp[p].value) <= req[p].limit

\* C13 witness: the similar-feel strategy alone produced more than limit
\* entries, and limit entries were returned.
C13_Witness ==
    \E p \in Slots :
        /\ RecommendDone(p)
        /\ Len(recommendations[p]) > req[p].limit
        /\ \A i \in 1..Len(recommendations[p]) : recommendations[p][i].score = SimilarScore
        /\ Len(resp[p].value) = req[p].limit

IsPrefix(s, t) == Len(s) <= Len(t) /\ \A i \in 1..Len(s) : s[i] = t[i]

\* C14: each step of recommend keeps the entries inserted so far at the front
\* of the list, in their order; in the list on return no entry of score 0.7
\* comes before an entry of score 0.9, and what is returned is the front of
\* that list, so that truncation drops popularity entries first.
C14_SimilarBeforePopular ==
    [][ \A p \in Slots :
          (Recommending(p) /\ ~Finished(p) /\ Steps(p)) =>
              /\ IsPrefix(recommendations[p], recommendations'[p])
              /\ pc'[p] = "done" =>
                    /\ resp'[p].status = "returned"
                    /\ IsPrefix(resp'[p].value, recommendations'[p])
                    /\ Len(resp'[p].value) = req[p].limit
                          \/ resp'[p].value = recommendations'[p]
                    /\ \A i, j \in 1..Len(recommendations'[p]) :
                          /\ recommendations'[p][i].score \in { SimilarScore, PopularScore }
                          /\ i < j => ~ ( /\ recommendations'[p][i].score = PopularScore
                                          /\ recommendations'[p][j].score = SimilarScore ) ]_vars

\* C14 witness: a call returned two similar-feel entries followed by a popularity entry.
C14_Witness ==
    \E p \in Slots :
        /\ RecommendDone(p)
        /\ Len(resp[p].value) = 3
        /\ resp[p].value[1].score = SimilarScore
        /\ resp[p].value[2].score = SimilarScore
        /\ resp[p].value[3].score = PopularScore

\* the rating rows of user u with a star equivalent of at least 4.0
OwnHighRatings(u) ==
    { r \in ratings :
        /\ r.user_id = u
        /\ LET rated == { d \in Dims : r.dims[d] # Null }
           IN  rated # {} /\ SumOver(r.dims, rated) >= 4 * Cardinality(rated) }

\* when the row was created or last updated
Recency(r) == IF r.updated_at # Null THEN r.updated_at ELSE r.created_at

\* C15: the favorites of a call are the books of the user's own ratings with
\* star_equivalent >= 4.0, most recent first, and at most 3 of them: with more
\* than 3 such ratings, the 3 created or updated most recently.
C15_FavoritesMostRecentFirst ==
    \A p \in Slots :
        Recommending(p) =>
            LET own == OwnHighRatings(req[p].user)
                fav == Favorites(p)
                row(b) == CHOOSE r \in own : r.book_id = b
            IN  /\ Len(fav) = IF Cardinality(own) < 3 THEN Cardinality(own) ELSE 3
                /\ \A i \in 1..Len(fav) : \E r \in own : r.book_id = fav[i]
                /\ \A i, j \in 1..Len(fav) : i < j => Recency(row(fav[i])) > Recency(row(fav[j]))
                /\ \A r \in own, i \in 1..Len(fav) :
                      r.book_id \notin Elems(fav) => Recency(row(fav[i])) > Recency(r)

\* the entries of a list that have the given score, in order
WithScore(recs, score) ==
    LET Has(e) == e.score = score
    IN  SelectSeq(recs, Has)

\* C16: the popularity fallback is reached only with fewer than limit
\* similar-feel entries; it adds at most limit minus that number of entries,
\* each a book whose fingerprint has total_ratings >= 10 and star_equivalent
\* >= 4.0 and that is not in the running exclusion set (the initial exclusions
\* and the similar-feel books), in descending order of total_ratings.
C16_PopularityFallback ==
    \A p \in Slots :
        /\ (Recommending(p) /\ pc[p] = "popular") => Len(recommendations[p]) < req[p].limit
        /\ RecommendDone(p) =>
              LET sim == WithScore(recommendations[p], SimilarScore)
                  pop == WithScore(recommendations[p], PopularScore)
              IN  pop # << >> =>
                    /\ Len(sim) < req[p].limit
                    /\ Len(pop) <= req[p].limit - Len(sim)
                    /\ \A i \in 1..Len(pop) :
                          /\ Popular(pop[i].book)
                          /\ pop[i].book \notin exclude_ids[p]
                          /\ pop[i].book \notin Elems(BookIdsOf(sim))
                          /\ IF req[p].exclude_read
                             THEN StatusOf(req[p].user, pop[i].book) = "none"
                             ELSE StatusOf(req[p].user, pop[i].book) \notin { "finished", "dnf" }
                    /\ \A i, j \in 1..Len(pop) :
                          i < j => FingerprintRow(pop[i].book).total_ratings
                                     >= FingerprintRow(pop[j].book).total_ratings

\* C16 witness: the fallback added a book of 12 ratings before a book of 10
\* ratings, while a book with a popular fingerprint is in the exclusion set and
\* another book has many ratings but a star equivalent below 4.0.
C16_Witness ==
    \E p \in Slots :
        /\ RecommendDone(p)
        /\ LET pop == WithScore(resp[p].value, PopularScore)
           IN  /\ Len(pop) = 2
               /\ FingerprintRow(pop[1].book).total_ratings = 12
               /\ FingerprintRow(pop[2].book).total_ratings = 10
        /\ \E b \in exclude_ids[p] : Popular(b)
        /\ \E b \in RecBooks \ exclude_ids[p] :
              HasFingerprint(b) /\ FingerprintRow(b).total_ratings >= 10 /\ ~Popular(b)

\* C17: recommend never raises; for a user without ratings and without library
\* it returns popularity entries only; the turn of the loop for a favorite
\* without fingerprint row, or with one of fewer than 3 ratings, adds no entry,
\* and the call goes on to the next favorite, to the popularity fallback or to
\* its return.
C17_PartialData ==
    [][ \A p \in Slots :
          (Recommending(p) /\ ~Finished(p) /\ Steps(p)) =>
              /\ pc'[p] = "done" =>
                    /\ resp'[p].status = "returned"
                    /\ ( /\ ~ \E r \in ratings : r.user_id = req[p].user
                         /\ ~ \E ub \in user_books : ub.user_id = req[p].user )
                       => \A i \in 1..Len(resp'[p].value) :
                             resp'[p].value[i].score = PopularScore
              /\ \A i \in 1..Len(Favorites(p)) :
                    (pc[p] = LoopLabel(i) /\ ~Reliable(Favorites(p)[i])) =>
                        /\ WithScore(recommendations'[p], SimilarScore) = recommendations[p]
                        /\ pc'[p] = IF i < Len(Favorites(p)) THEN LoopLabel(i + 1)
                                    ELSE IF Len(recommendations[p]) < req[p].limit
                                    THEN "popular" ELSE "done" ]_vars

\* C17 witness: the favorites of a call that returned were a book without
\* fingerprint row, a book with a fingerprint of 2 ratings and a book with a
\* reliable fingerprint; a similar-feel entry was returned and the popularity
\* fallback ran.
C17_Witness ==
    \E p \in Slots :
        /\ RecommendDone(p) /\ resp[p].status = "returned"
        /\ \E i, j, k \in 1..Len(Favorites(p)) :
              /\ ~HasFingerprint(Favorites(p)[i])
              /\ HasFingerprint(Favorites(p)[j]) /\ ~Reliable(Favorites(p)[j])
              /\ Reliable(Favorites(p)[k])
        /\ WithScore(resp[p].value, SimilarScore) # << >>
        /\ Len(recommendations[p]) < req[p].limit

(* ---------------- get_books_by_mood ---------------- *)
\* a call of get_books_by_mood has come to its end
ByMoodDone(p) == Finished(p) /\ req[p].kind = "by_mood"

FourMoods == { "comfort", "challenge", "escape", "contemplative" }

AtLeast(x, n, d) == x # NullAvg /\ x[1] * d >= n * x[2]

AtMost(x, n, d) == x # NullAvg /\ x[1] * d <= n * x[2]

\* the fingerprint row of book b satisfies the predicate of the mood
InMood(mood, b) ==
    LET avg == FingerprintRow(b).avg
    IN  CASE mood = "comfort" ->
               AtLeast(avg["emotional_impact"], 4, 1) /\ AtMost(avg["complexity"], 3, 1)
          [] mood = "challenge" ->
               AtLeast(avg["complexity"], 4, 1) /\ AtLeast(avg["originality"], 4, 1)
          [] mood = "escape" ->
               AtLeast(avg["pace"], 4, 1) /\ AtLeast(avg["plot_quality"], 4, 1)
          [] mood = "contemplative" ->
               AtMost(avg["pace"], 5, 2) /\ AtLeast(avg["prose_style"], 4, 1)

\* C23: a call of byMood for one of the four moods returns only books whose
\* fingerprint has at least 3 ratings (the floor of fingerprint similarity),
\* and it returns every book with at least 3 ratings that satisfies the
\* mood's predicate, as far as limit allows.
C23_MoodUsesSimilarityFloor ==
    \A p \in Slots :
        (ByMoodDone(p) /\ req[p].mood \in FourMoods) =>
            /\ resp[p].status = "returned"
            /\ \A b \in Elems(resp[p].value) :
                  HasFingerprint(b) /\ FingerprintRow(b).total_ratings >= MinCandidateRatings
            /\ \/ Len(resp[p].value) = req[p].limit
               \/ \A b \in RecBooks :
                     ( /\ HasFingerprint(b)
                       /\ FingerprintRow(b).total_ratings >= MinCandidateRatings
                       /\ InMood(req[p].mood, b) )
                     => b \in Elems(resp[p].value)

\* C24: a call of byMood for one of the four moods returns at most limit
\* books, each with a fingerprint row whose two averages named by the mood are
\* not NULL and within the mood's bounds.
C24_MoodPredicates ==
    \A p \in Slots :
        (ByMoodDone(p) /\ req[p].mood \in FourMoods) =>
            /\ resp[p].status = "returned"
            /\ Len(resp[p].value) <= req[p].limit
            /\ \A b \in Elems(resp[p].value) : HasFingerprint(b) /\ InMood(req[p].mood, b)

\* C24 witness: a comfort call returned limit books, one of them on both
\* bounds (4.0 and 3.0), while a book with enough ratings has a NULL
\* complexity and another one an emotional impact below 4.0.
C24_Witness ==
    \E p \in Slots :
        /\ ByMoodDone(p) /\ req[p].mood = "comfort"
        /\ Len(resp[p].value) = req[p].limit
        /\ \E b \in Elems(resp[p].value) :
              /\ FingerprintRow(b).avg["emotional_impact"] = << 4, 1 >>
              /\ FingerprintRow(b).avg["complexity"] = << 3, 1 >>
        /\ \E b1, b2 \in RecBooks \ Elems(resp[p].value) :
              /\ FingerprintRow(b1).total_ratings >= 5
              /\ FingerprintRow(b1).avg["complexity"] = NullAvg
              /\ FingerprintRow(b1).avg["emotional_impact"] = << 5, 1 >>
              /\ FingerprintRow(b2).total_ratings >= 5
              /\ FingerprintRow(b2).avg["emotional_impact"] = << 7, 2 >>
              /\ FingerprintRow(b2).avg["complexity"] = << 1, 1 >>

\* C25: a call of byMood with a label that is none of the four moods (in any
\* case of letters) fails with the UnknownMood error and returns no books.
C25_UnknownMoodFails ==
    \A p \in Slots :
        (ByMoodDone(p) /\ Lower(req[p].mood) \notin FourMoods) =>
            /\ resp[p].status = "raised"
            /\ resp[p].error = "UnknownMood"

(* ---------------- cosine_similarity ---------------- *)
CosineDone(p) == Finished(p) /\ req[p].kind = "cosine_similarity"

\* every component of the vector is 0: its magnitude is zero
ZeroVector(v) == \A i \in 1..Len(v) : v[i][1] = 0

\* C26: cosine_similarity raises ValueError, and returns nothing, when the two
\* vectors differ in length; when they have the same length and at least one
\* of them has magnitude zero it returns 0.0 and raises nothing.
C26_MismatchRaisesZeroMagnitudeGivesZero ==
    \A p \in Slots :
        CosineDone(p) =>
            /\ Len(req[p].vec1) # Len(req[p].vec2)
               => resp[p] = [status |-> "raised", error |-> "ValueError"]
            /\ ( /\ Len(req[p].vec1) = Len(req[p].vec2)
                 /\ ZeroVector(req[p].vec1) \/ ZeroVector(req[p].vec2) )
               => resp[p] = [status |-> "returned", value |-> << 0, 1 >>]

\* C26 witness: a call on a zero vector and a vector of the same length that
\* is not zero has returned 0.0.
C26_Witness ==
    \E p \in Slots :
        /\ CosineDone(p)
        /\ Len(req[p].vec1) = MaxVecLen /\ Len(req[p].vec2) = MaxVecLen
        /\ ZeroVector(req[p].vec1) /\ ~ZeroVector(req[p].vec2)
        /\ resp[p] = [status |-> "returned", value |-> << 0, 1 >>]

(* ---------------- star_equivalent of the fingerprint ---------------- *)
\* C27: the star_equivalent of the fingerprint row a recompute has written is
\* the mean of those of the row's 7 averages that are not NULL, each average
\* counting once, and it is NULL exactly when the 7 averages are all NULL.
C27_StarIsMeanOfAverages ==
    \A p \in Slots :
        Recomputed(p) =>
            /\ HasFingerprint(req[p].book)
            /\ IsStarOf(FingerprintRow(req[p].book).star_equivalent,
                        FingerprintRow(req[p].book).avg)
            /\ FingerprintRow(req[p].book).star_equivalent = NullAvg
               <=> \A d \in Dims : FingerprintRow(req[p].book).avg[d] = NullAvg

\* C27 witness: a recompute over two ratings that both rate pace 5 while only
\* one rates emotional impact, 1: the averages are 5 and 1 and the star
\* equivalent is 3, not the mean 11/3 of the three values.
C27_Witness ==
    \E p \in Slots :
        /\ Recomputed(p)
        /\ HasFingerprint(req[p].book)
        /\ Cardinality(RatingsOf(ratings, req[p].book)) = 2
        /\ \E r \in RatingsOf(ratings, req[p].book) : r.dims["emotional_impact"] = Null
        /\ FingerprintRow(req[p].book).avg["pace"] = << MaxRating, 1 >>
        /\ FingerprintRow(req[p].book).avg["emotional_impact"] = << MinRating, 1 >>
        /\ FingerprintRow(req[p].book).star_equivalent = << 3, 1 >>

(* ---------------- recommendations and the user's own ratings ---------------- *)
\* user u has a rating row of their own for book b
RatedBy(u, b) == \E r \in ratings : r.user_id = u /\ r.book_id = b

\* C28: recommend returns no book for which the requesting user has a rating
\* of their own, whether or not the book is in the user's library.
C28_NoOwnRatedBook ==
    \A p \in Slots :
        RecommendDone(p) =>
            /\ resp[p].status = "returned"
            /\ \A b \in Elems(BookIdsOf(resp[p].value)) : ~RatedBy(req[p].user, b)

(* ---------------- update of an existing rating ---------------- *)
\* C29: the commit of an update of an existing rating replaces the row by one
\* with the same id, user and book, in which every dimension the request sets
\* (to a value or to null) has the value of the request and every dimension
\* the request omits has its previous value, and touches no other row; the
\* recompute that ends the request leaves the fingerprint of the book equal to
\* the aggregate of the ratings, the merged one included.
C29_UpdateMergesSetDimensions ==
    [][ \A p \in Slots :
          /\ ( /\ pc[p] = "commit_rating" /\ pc'[p] = "refresh"
               /\ existing[p] # NoRow )
             => \E old \in ratings, new \in ratings' :
                    /\ old.id = existing[p].id
                    /\ new.id = old.id /\ new.user_id = old.user_id /\ new.book_id = old.book_id
                    /\ \A d \in Dims :
                          new.dims[d] = IF req[p].data[d] # Unset THEN req[p].data[d]
                                        ELSE old.dims[d]
                    /\ ratings' \ { new } = ratings \ { old }
          /\ ( /\ pc[p] = "commit_fingerprint" /\ pc'[p] = "done"
               /\ req[p].kind = "post" /\ resp'[p].status = 201 )
             => /\ ratings' = ratings
                /\ resp'[p].rating \in ratings
                /\ \E f \in fingerprints' :
                      /\ f.book_id = req[p].book
                      /\ IsFingerprintOf(f, RatingsOf(ratings, req[p].book)) ]_vars

\* C29 witness: the second request of a user for a book set pace to null and
\* omitted emotional impact; the rating returned has pace null and keeps its
\* emotional impact of 5, and so does the fingerprint.
C29_Witness ==
    \E p \in Slots :
        /\ Recomputed(p) /\ req[p].kind = "post"
        /\ req[p].data["pace"] = Null /\ req[p].data["emotional_impact"] = Unset
        /\ resp[p].rating.dims["pace"] = Null
        /\ resp[p].rating.dims["emotional_impact"] = MaxRating
        /\ Cardinality(RatingsOf(ratings, req[p].book)) = 1
        /\ FingerprintRow(req[p].book).avg["pace"] = NullAvg
        /\ FingerprintRow(req[p].book).avg["emotional_impact"] = << MaxRating, 1 >>

(* ---------------- the trigger of init_db ---------------- *)
\* an INSERT, UPDATE or DELETE of a rating row has come to its end
StatementDone(p) == Finished(p) /\ req[p].kind \in { "insert", "update", "delete_row" }

\* C30: every insert, update and delete of a rating row completes, and the
\* trigger leaves for the book of the row the fingerprint that the
\* application's recompute computes from the ratings: with no rating left,
\* total_ratings 0 and every average NULL, and as star_equivalent the mean of
\* the averages that are not NULL.
C30_TriggerMatchesRecompute ==
    \A p \in Slots :
        StatementDone(p) =>
            /\ resp[p].status = "returned"
            /\ HasFingerprint(req[p].book)
            /\ FingerprintRow(req[p].book) = FpNew(req[p].book, AggStats(ratings, req[p].book))

====
